---- MODULE Spec2Model ----
(***************************************************************************)
(* Contract assistant: document chunking work pool and the actor/critic    *)
(* refinement orchestrator.                                                *)
(*                                                                         *)
(*   core/document_processing/document_chunking.py  DocumentChunkingManager*)
(*   core/crew/crew_manager.py                      ContractProcessingCrew *)
(*                                                                         *)
(* Text is a sequence of characters, an exception message a sequence of    *)
(* words.  A ThreadPoolExecutor is a FIFO queue of futures served by at    *)
(* most max_workers threads; the main thread and the workers interleave.   *)
(***************************************************************************)
EXTENDS Integers, Sequences, FiniteSets, TLC

\* Python's None, where a record, a text or a score is expected
None == [kind |-> "none"]
NoText == <<"<None>">>
NoScore == -1
NoExc == <<>>

\* ---------------------------------------------------------------- bounds
MaxChunks == 3
MaxWorkersArg == 2

\* ------------------------------------------------------- text primitives
UpperToLower == [c \in {"T", "S"} |-> IF c = "T" THEN "t" ELSE "s"]

\* str.lower() on one character / one word
LowerChar(c) == IF c \in DOMAIN UpperToLower THEN UpperToLower[c] ELSE c

WordLower ==
  [w \in {"AWS", "Credentials", "Error", "Security", "Token", "Bedrock", "Invalid", "Processing"} |->
     CASE w = "AWS" -> "aws"
       [] w = "Credentials" -> "credentials"
       [] w = "Error" -> "error"
       [] w = "Security" -> "security"
       [] w = "Token" -> "token"
       [] w = "Bedrock" -> "bedrock"
       [] w = "Invalid" -> "invalid"
       [] w = "Processing" -> "processing"]

LowerWord(w) == IF w \in DOMAIN WordLower THEN WordLower[w] ELSE w

\* str.lower() on a text (sequence of characters)
Lower(s) == [i \in DOMAIN s |-> LowerChar(s[i])]

\* str.lower() on a message (sequence of words)
LowerMsg(m) == [i \in DOMAIN m |-> LowerWord(m[i])]

\* Python's `needle in hay`
Contains(hay, needle) ==
  \E k \in 0..(Len(hay) - Len(needle)) : SubSeq(hay, k + 1, k + Len(needle)) = needle

\* Python's hay.find(needle): 0-based position of the first match, -1 if none
Find(hay, needle) ==
  IF Contains(hay, needle)
    THEN CHOOSE k \in 0..(Len(hay) - Len(needle)) :
           /\ SubSeq(hay, k + 1, k + Len(needle)) = needle
           /\ \A j \in 0..(k - 1) : SubSeq(hay, j + 1, j + Len(needle)) # needle
    ELSE -1

Min(a, b) == IF a <= b THEN a ELSE b

RECURSIVE Concat(_)
\* "".join(texts)
Concat(texts) == IF texts = <<>> THEN <<>> ELSE Head(texts) \o Concat(Tail(texts))

\* ------------------------------------------------------ exception messages
CredA == <<"AWS", "Credentials", "Error">>
CredB == <<"security", "token">>
BedrockPrefix == <<"AWS", "Bedrock", "credentials", "error">>

\* messages a transform may raise with
ErrorMessages ==
  { <<"Processing", "error">>,
    <<"AWS", "Credentials", "Error", ":", "expired">>,
    <<"Invalid", "Security", "Token">>,
    <<"aws", "credentials", "error">> }

\* the claim's credential-failure markers: "AWS Credentials Error" as written,
\* "security token" in any letter case
HasCredentialMarker(msg) == Contains(msg, CredA) \/ Contains(LowerMsg(msg), CredB)


\* ------------------------------------------------------------------ state
VARIABLES
  entry,             \* the call under way: "process_chunks_parallel" or "process_contract"
  pc,                \* position of the calling (main) thread
  chunks,            \* the list handed to the work pool
  max_workers_arg,   \* the max_workers the caller asked for
  max_workers,       \* pool size given to ThreadPoolExecutor
  threads,           \* worker threads the executor has started
  fstate,            \* per submitted chunk: state of its future
  fres,              \* per submitted chunk: what its future holds once finished
  yielded,           \* futures as_completed has handed to the loop body
  processed_chunks,  \* the result list (slots are None until written)
  cancel_pos,        \* position of `for f in futures: f.cancel()`
  raised,            \* the exception leaving the call, None if none
  outcome,           \* history: what the transform of each chunk did
  started_after,     \* history: chunks whose transform started after the credential failure was caught
  original_rtf,      \* process_contract: the document
  instruction_hits,  \* process_contract: whether user_prompt names something found in the document
  doc_chunks,        \* chunked path: the splitter's chunks, in document order
  targets,           \* chunked path: find_instruction_targets' result
  final_rtf,         \* chunked path: the reassembled document
  timed_out,         \* history: chunks not finished when as_completed ran out of time
  score_calls,       \* history: evaluation kickoffs of the chunked path
  evaluation_seen,   \* history: what the evaluation kickoff of the chunked path did
  result,            \* the CrewProcessingResult returned, None before
  configured,        \* single-document loop: max_iterations of the configuration
  max_iterations,    \* single-document loop: iteration budget
  iteration,         \* single-document loop: loop variable
  current_rtf,       \* single-document loop: text the next round works on
  iterations_used,
  final_score,
  kickoffs,          \* history: actor/critic kickoffs of the loop
  satisfied_at,      \* history: round whose evaluation said satisfied (0: none), and its score
  failed,            \* history: the round whose kickoff raised, with current_rtf and final_score then
  round_result,      \* history: what the kickoff of the latest round did
  modify_call,       \* history: the latest round's document for the actor, and current_rtf at that time
  stub_d,            \* history: every round so far evaluated to satisfied=false, overall_score=0.5
  manager,           \* a call of one DocumentChunkingManager method: the object's fields
  args,              \* ... its arguments
  returned,          \* ... what the call returned or raised, None before
  storage,           \* MemoryStorage.storage: job_id -> JobData
  lock,              \* MemoryStorage._lock: the thread holding it, 0 when free
  worker_pc,         \* test_thread_safety: position of each worker thread
  worker_i,          \* ... its loop variable i
  worker_job,        \* ... its job_id
  results,           \* ... the shared results list
  main_pc,           \* ... position of the main thread
  completed_count    \* ... jobs the main thread found completed

poolVars == <<chunks, max_workers_arg, max_workers, threads, fstate, fres, yielded, processed_chunks,
              cancel_pos, raised, outcome, started_after>>

chunkedVars == <<doc_chunks, targets, final_rtf, timed_out, score_calls, evaluation_seen>>

loopVars == <<configured, max_iterations, iteration, current_rtf, iterations_used, final_score,
              kickoffs, satisfied_at, stub_d, modify_call, failed, round_result>>

contractVars == <<original_rtf, instruction_hits, result, chunkedVars, loopVars>>

callVars == <<manager, args, returned>>

storeVars == <<storage, lock, worker_pc, worker_i, worker_job, results, main_pc, completed_count>>

vars == <<entry, pc, poolVars, contractVars, callVars, storeVars>>

\* no method of the chunking manager is being called on its own
CallIdle ==
  /\ manager = None
  /\ args = None
  /\ returned = None

\* no MemoryStorage is in use
StoreIdle ==
  /\ storage = << >>
  /\ lock = 0
  /\ worker_pc = << >>
  /\ worker_i = << >>
  /\ worker_job = << >>
  /\ results = << >>
  /\ main_pc = "none"
  /\ completed_count = 0

Idx == 1..Len(chunks)

Running == {i \in Idx : fstate[i] = "RUNNING"}
Pending == {i \in Idx : fstate[i] = "PENDING"}
Done == {i \in Idx : fstate[i] \in {"FINISHED", "CANCELLED"}}

\* ------------------------------------------------ DocumentChunkingManager
\* the i-th chunk of an input list: i characters, so that no two chunks are equal
PoolChunk(i) == [j \in 1..i |-> "a"]

\* what processor_func(chunk, instruction, chunk_id) may do
ProcessorOutcomes(chunk) ==
  { [kind |-> "ret", text |-> <<"p">> \o chunk, changed |-> TRUE],
    [kind |-> "ret", text |-> chunk, changed |-> FALSE] }
  \cup { [kind |-> "exc", msg |-> m] : m \in ErrorMessages }

\* variant: the "security token" test without .lower()
IsCredentialsErrorCaseSensitive(error_msg) ==
  Contains(error_msg, CredA) \/ Contains(error_msg, CredB)

\* line 315: the worker's test for a credential error
IsCredentialsError(error_msg) ==
  Contains(error_msg, CredA) \/ Contains(LowerMsg(error_msg), CredB)

\* variant: the worker lets every exception of the transform escape
process_chunk_worker_reraise(chunk, idx, out) ==
  IF out.kind = "ret"
    THEN [kind |-> "ret", idx |-> idx, text |-> out.text, changed |-> out.changed]
    ELSE IF IsCredentialsError(out.msg)
      THEN [kind |-> "exc", msg |-> BedrockPrefix \o <<":">> \o out.msg]
      ELSE [kind |-> "exc", msg |-> out.msg]

\* process_chunk_worker((chunk, idx)): what the future ends up holding
process_chunk_worker(chunk, idx, out) ==
  IF out.kind = "ret"
    THEN [kind |-> "ret", idx |-> idx, text |-> out.text, changed |-> out.changed]
    ELSE IF IsCredentialsError(out.msg)
      THEN [kind |-> "exc", msg |-> BedrockPrefix \o <<":">> \o out.msg]
      ELSE [kind |-> "ret", idx |-> idx, text |-> chunk, changed |-> FALSE]

\* a (text, changed) tuple
Tuple(text, changed) == [kind |-> "tuple", text |-> text, changed |-> changed]

\* line 324
EffectiveWorkers(total_chunks, arg) == Min(total_chunks, arg)

\* variant: results appended in completion order
ResultSlotAppend(r) == Cardinality(yielded) + 1

\* line 336: the slot a finished worker's result is stored in
ResultSlot(r) == r.idx

\* line 342
IsCriticalError(msg) == Contains(msg, BedrockPrefix)

\* no process_contract call is under way
ContractIdle ==
  /\ original_rtf = <<>>
  /\ instruction_hits = FALSE
  /\ result = None
  /\ doc_chunks = <<>>
  /\ targets = <<>>
  /\ final_rtf = NoText
  /\ timed_out = {}
  /\ score_calls = 0
  /\ evaluation_seen = None
  /\ configured = 0
  /\ max_iterations = 0
  /\ iteration = 0
  /\ current_rtf = <<>>
  /\ iterations_used = 0
  /\ final_score = NoScore
  /\ kickoffs = 0
  /\ satisfied_at = <<0, NoScore>>
  /\ modify_call = None
  /\ round_result = None
  /\ failed = None
  /\ stub_d = TRUE

InitPool ==
  /\ entry = "process_chunks_parallel"
  /\ pc = "submit"
  /\ \E n \in 0..MaxChunks : chunks = [i \in 1..n |-> PoolChunk(i)]
  /\ max_workers_arg \in 1..MaxWorkersArg
  /\ max_workers = EffectiveWorkers(Len(chunks), max_workers_arg)
  /\ threads = 0
  /\ fstate = [i \in Idx |-> "NONE"]
  /\ fres = [i \in Idx |-> None]
  /\ yielded = {}
  /\ processed_chunks = [i \in Idx |-> None]
  /\ cancel_pos = 0
  /\ raised = NoExc
  /\ outcome = [i \in Idx |-> None]
  /\ started_after = {}
  /\ ContractIdle
  /\ CallIdle /\ StoreIdle

\* ThreadPoolExecutor(max_workers=0) raises ValueError
PoolNoWorkers ==
  /\ entry = "process_chunks_parallel"
  /\ pc = "submit"
  /\ max_workers <= 0
  /\ pc' = "raised"
  /\ raised' = <<"max_workers", "must", "be", "greater", "than", "0">>
  /\ UNCHANGED <<contractVars, entry, chunks, max_workers_arg, max_workers, threads, fstate, fres, yielded,
                 processed_chunks, cancel_pos, outcome, started_after>>
  /\ UNCHANGED <<callVars, storeVars>>

\* variant: a new thread for every work item
ExecutorSubmitUnbounded(i) ==
  /\ fstate' = [fstate EXCEPT ![i] = "PENDING"]
  /\ threads' = threads + 1

\* executor.submit: queue the work item, start a thread unless one is idle
\* or max_workers threads exist already
ExecutorSubmit(i) ==
  /\ fstate' = [fstate EXCEPT ![i] = "PENDING"]
  /\ \/ /\ threads < max_workers
        /\ threads' = threads + 1
     \/ /\ \/ threads >= max_workers
           \/ Cardinality(Running) + Cardinality(Pending) < threads
        /\ threads' = threads

\* lines 329-330: futures = {executor.submit(process_chunk_worker, arg): arg ...}
PoolSubmit ==
  /\ entry = "process_chunks_parallel"
  /\ pc = "submit"
  /\ max_workers > 0
  /\ \E i \in Idx :
       /\ fstate[i] = "NONE"
       /\ \A j \in 1..(i - 1) : fstate[j] # "NONE"
       /\ ExecutorSubmit(i)
       /\ pc' = IF i = Len(chunks) THEN "collect" ELSE "submit"
  /\ UNCHANGED <<contractVars, entry, chunks, max_workers_arg, max_workers, fres, yielded, processed_chunks,
                 cancel_pos, raised, outcome, started_after>>
  /\ UNCHANGED <<callVars, storeVars>>

\* a worker thread takes the oldest queued work item and starts running it
WorkerStart ==
  /\ Cardinality(Running) < threads
  /\ \E i \in Pending :
       /\ \A j \in Pending : i <= j
       /\ fstate' = [fstate EXCEPT ![i] = "RUNNING"]
       /\ started_after' = IF pc = "cancel" THEN started_after \cup {i} ELSE started_after
  /\ UNCHANGED <<contractVars, entry, pc, chunks, max_workers_arg, max_workers, threads, fres, yielded, processed_chunks,
                 cancel_pos, raised, outcome>>
  /\ UNCHANGED <<callVars, storeVars>>

\* process_chunk_worker runs to its end on a worker thread
PoolWorkerFinish ==
  /\ entry = "process_chunks_parallel"
  /\ \E i \in Running : \E out \in ProcessorOutcomes(chunks[i]) :
       /\ outcome' = [outcome EXCEPT ![i] = out]
       /\ fres' = [fres EXCEPT ![i] = process_chunk_worker(chunks[i], i, out)]
       /\ fstate' = [fstate EXCEPT ![i] = "FINISHED"]
  /\ UNCHANGED <<contractVars, entry, pc, chunks, max_workers_arg, max_workers, threads, yielded, processed_chunks,
                 cancel_pos, raised, started_after>>
  /\ UNCHANGED <<callVars, storeVars>>

\* lines 333-348: one round of `for future in as_completed(futures)`
PoolCollect ==
  /\ entry = "process_chunks_parallel"
  /\ pc = "collect"
  /\ \E i \in Done \ yielded :
       /\ yielded' = yielded \cup {i}
       /\ IF fres[i].kind = "ret"
            THEN /\ processed_chunks' =
                      [processed_chunks EXCEPT ![ResultSlot(fres[i])] =
                         Tuple(fres[i].text, fres[i].changed)]
                 /\ pc' = IF yielded' = Idx THEN "returned" ELSE "collect"
                 /\ UNCHANGED <<cancel_pos, raised>>
            ELSE IF IsCriticalError(fres[i].msg)
              THEN /\ pc' = "cancel"
                   /\ cancel_pos' = 1
                   /\ raised' = fres[i].msg
                   /\ UNCHANGED processed_chunks
              ELSE /\ pc' = IF yielded' = Idx THEN "returned" ELSE "collect"
                   /\ UNCHANGED <<processed_chunks, cancel_pos, raised>>
  /\ UNCHANGED <<contractVars, entry, chunks, max_workers_arg, max_workers, threads, fstate, fres, outcome, started_after>>
  /\ UNCHANGED <<callVars, storeVars>>

\* Future.cancel(): only a future still queued is cancelled
FutureCancel(i) ==
  fstate' = [fstate EXCEPT ![i] = IF fstate[i] = "PENDING" THEN "CANCELLED" ELSE fstate[i]]

\* lines 344-345: for f in futures: f.cancel()
PoolCancel ==
  /\ entry = "process_chunks_parallel"
  /\ pc = "cancel"
  /\ cancel_pos <= Len(chunks)
  /\ FutureCancel(cancel_pos)
  /\ cancel_pos' = cancel_pos + 1
  /\ pc' = IF cancel_pos = Len(chunks) THEN "shutdown" ELSE "cancel"
  /\ UNCHANGED <<contractVars, entry, chunks, max_workers_arg, max_workers, threads, fres, yielded, processed_chunks,
                 raised, outcome, started_after>>
  /\ UNCHANGED <<callVars, storeVars>>

\* line 346 inside `with`: executor.shutdown(wait=True), then the exception leaves
PoolRaise ==
  /\ entry = "process_chunks_parallel"
  /\ pc = "shutdown"
  /\ Running = {} /\ Pending = {}
  /\ pc' = "raised"
  /\ UNCHANGED <<entry, poolVars, contractVars>>
  /\ UNCHANGED <<callVars, storeVars>>

NextPool ==
  \/ PoolNoWorkers
  \/ PoolSubmit
  \/ WorkerStart
  \/ PoolWorkerFinish
  \/ PoolCollect
  \/ PoolCancel
  \/ PoolRaise

SpecPool == InitPool /\ [][NextPool]_vars


\* ------------------------------------------------- chunking manager, text
\* DocumentChunkingManager(chunk_size, chunk_overlap), lines 35-36: the sizes
\* of the orchestrator's manager
chunk_size == 4
chunk_overlap == 0

\* crew_manager.py line 41: self.chunking_manager
chunking_manager == [chunk_size |-> chunk_size, chunk_overlap |-> chunk_overlap]

\* variant: every document is handed to the splitter
should_chunk_document_always(self, document_content) == TRUE

\* variant: a document of exactly chunk_size characters is not chunked
should_chunk_document_strict(self, document_content) == Len(document_content) > self.chunk_size

\* lines 44-54
should_chunk_document(self, document_content) == Len(document_content) >= self.chunk_size

\* RecursiveCharacterTextSplitter(chunk_size, chunk_overlap, separators =
\* ["\n\n", "\n", " ", ""]) with the library's defaults keep_separator = True
\* and strip_whitespace = True, on texts without "\n": the separators that
\* apply are " " and "".

RECURSIVE LStrip(_)
LStrip(text) == IF text # << >> /\ Head(text) = " " THEN LStrip(Tail(text)) ELSE text

RECURSIVE RStrip(_)
RStrip(text) ==
  IF text # << >> /\ text[Len(text)] = " " THEN RStrip(SubSeq(text, 1, Len(text) - 1)) ELSE text

\* str.strip()
Strip(text) == RStrip(LStrip(text))

\* _join_docs with separator "": the joined, stripped text, nothing if empty
join_docs(docs) ==
  LET text == Strip(Concat(docs)) IN IF text = << >> THEN << >> ELSE << text >>

RECURSIVE DropForOverlap(_, _, _)
\* _merge_splits, the while loop: drop leading splits until what is kept is
\* within chunk_overlap and leaves room for the next split
DropForOverlap(self, current_doc, next_len) ==
  LET total == Len(Concat(current_doc)) IN
  IF total > self.chunk_overlap \/ (total + next_len > self.chunk_size /\ total > 0)
    THEN DropForOverlap(self, Tail(current_doc), next_len)
    ELSE current_doc

RECURSIVE MergeFrom(_, _, _)
MergeFrom(self, splits, current_doc) ==
  IF splits = << >> THEN join_docs(current_doc)
  ELSE LET d == Head(splits) IN
       IF Len(Concat(current_doc)) + Len(d) > self.chunk_size /\ current_doc # << >>
         THEN join_docs(current_doc)
                \o MergeFrom(self, Tail(splits), Append(DropForOverlap(self, current_doc, Len(d)), d))
         ELSE MergeFrom(self, Tail(splits), Append(current_doc, d))

\* _merge_splits(splits, ""): pack the splits into chunks of at most chunk_size
merge_splits(self, splits) == MergeFrom(self, splits, << >>)

\* splitting with separator "": the characters
Chars(text) == [i \in 1..Len(text) |-> << text[i] >>]

RECURSIVE PiecesFrom(_, _)
\* splitting with separator " ", the separator kept at the start of the piece
\* that follows it; empty pieces are dropped
PiecesFrom(text, piece) ==
  IF text = << >> THEN (IF piece = << >> THEN << >> ELSE << piece >>)
  ELSE IF Head(text) = " "
    THEN (IF piece = << >> THEN << >> ELSE << piece >>) \o PiecesFrom(Tail(text), << " " >>)
    ELSE PiecesFrom(Tail(text), Append(piece, Head(text)))

RECURSIVE SplitPieces(_, _, _)
\* _split_text, the loop over the splits: short pieces are collected and
\* merged, a piece of chunk_size or more is split again with separator ""
SplitPieces(self, pieces, good_splits) ==
  LET merged == IF good_splits = << >> THEN << >> ELSE merge_splits(self, good_splits) IN
  IF pieces = << >> THEN merged
  ELSE IF Len(Head(pieces)) < self.chunk_size
    THEN SplitPieces(self, Tail(pieces), Append(good_splits, Head(pieces)))
    ELSE merged \o merge_splits(self, Chars(Head(pieces))) \o SplitPieces(self, Tail(pieces), << >>)

\* text_splitter.split_text
split_text(self, text) ==
  IF Contains(text, << " " >>)
    THEN SplitPieces(self, PiecesFrom(text, << >>), << >>)
    ELSE merge_splits(self, Chars(text))

\* lines 56-71
split_document(self, document_content) ==
  IF ~should_chunk_document(self, document_content)
    THEN << document_content >>
    ELSE split_text(self, document_content)

\* lines 73-197, for a document of at most 50 characters: every context
\* window [pos-100 .. pos+len+200] or [pos-50 .. pos+len+200] is clamped to
\* the whole document, so the de-duplicated list is the document itself when
\* some pass finds a match and empty when none does
find_instruction_targets(hits, document) ==
  IF hits THEN << document >> ELSE << >>

\* lines 250-255
structure_markers ==
  { <<"s","e","c","t","i","o","n">>, <<"a","r","t","i","c","l","e">>,
    <<"c","l","a","u","s","e">>, <<"p","a","r","a","g","r","a","p","h">>,
    <<"p","a","r","t","i","e","s">>, <<"a","g","r","e","e","m","e","n","t">>,
    <<"w","i","t","n","e","s","s","e","t","h">>, <<"w","h","e","r","e","a","s">>,
    <<"t","e","r","m">>, <<"t","e","r","m","i","n","a","t","i","o","n">>,
    <<"p","a","y","m","e","n","t">>, <<"s","e","r","v","i","c","e","s">>,
    <<"o","b","l","i","g","a","t","i","o","n","s">>,
    <<"g","o","v","e","r","n","i","n","g"," ","l","a","w">>,
    <<"l","i","a","b","i","l","i","t","y">>,
    <<"i","n","d","e","m","n","i","f","i","c","a","t","i","o","n">> }

\* lines 224-247: what one target adds to a chunk's score
TargetScore(chunk, target) ==
  LET chunk_lower == Lower(chunk)
      target_lower == Lower(target)
      half == Len(target_lower) \div 2
  IN IF Contains(chunk_lower, target_lower)
       THEN LET target_pos == Find(chunk_lower, target_lower)
            IN 5 + (IF target_pos < Len(chunk) \div 3 THEN 2
                    ELSE IF target_pos < (Len(chunk) * 2) \div 3 THEN 1
                    ELSE 0)
       ELSE IF Len(target_lower) > 10
         THEN (IF Contains(chunk_lower, SubSeq(target_lower, 1, half)) THEN 2 ELSE 0)
              + (IF Contains(chunk_lower, SubSeq(target_lower, half + 1, Len(target_lower)))
                   THEN 2 ELSE 0)
         ELSE 0

RECURSIVE TargetsScore(_, _)
TargetsScore(chunk, tgts) ==
  IF tgts = << >> THEN 0
  ELSE TargetScore(chunk, Head(tgts)) + TargetsScore(chunk, Tail(tgts))

\* lines 218-263: the score of one chunk
ChunkScore(chunk, tgts) ==
  TargetsScore(chunk, tgts)
    + Cardinality({m \in structure_markers : Contains(Lower(chunk), m)})

\* variant: chunks of equal score in reverse index order
SortKeyBeforeTiesReversed(cs, tgts, j, i) ==
  \/ ChunkScore(cs[j], tgts) > ChunkScore(cs[i], tgts)
  \/ ChunkScore(cs[j], tgts) = ChunkScore(cs[i], tgts) /\ j > i

\* line 266: chunk j sorts before chunk i under key (-score, index)
SortKeyBefore(cs, tgts, j, i) ==
  \/ ChunkScore(cs[j], tgts) > ChunkScore(cs[i], tgts)
  \/ ChunkScore(cs[j], tgts) = ChunkScore(cs[i], tgts) /\ j < i

\* variant: every position takes the first chunk
prioritized_indices_first(cs, tgts) == [pos \in 1..Len(cs) |-> 1]

\* lines 266-269: prioritized_indices (1-based)
prioritized_indices(cs, tgts) ==
  [pos \in 1..Len(cs) |->
     CHOOSE i \in 1..Len(cs) :
       Cardinality({j \in 1..Len(cs) : SortKeyBefore(cs, tgts, j, i)}) = pos - 1]

\* lines 199-279
prioritize_chunks(cs, tgts) ==
  IF tgts = << >> THEN cs
  ELSE [pos \in 1..Len(cs) |-> cs[prioritized_indices(cs, tgts)[pos]]]

\* lines 352-386
reassemble_chunks(processed) ==
  Concat([i \in 1..Len(processed) |-> processed[i].text])

\* ------------------------- split, process_chunks_parallel, reassemble
\* documents for the round trip: shorter than chunk_size, several full
\* chunks, a space inside a chunk, spaces where the splitter cuts, only spaces
RoundTripDocs ==
  { <<"a","b","c">>,
    <<"a","b","c","d","e","f","g","h">>,
    <<"a"," ","b","c">>,
    <<"a","b","c","d"," ","e","f","g","h">>,
    <<"a","b"," ","c","d"," ","e","f">>,
    <<" "," "," "," ">> }

\* reassemble_chunks(process_chunks_parallel(split_document(doc), ...)): the call
InitRoundTrip ==
  /\ entry = "process_chunks_parallel"
  /\ pc = "submit"
  /\ original_rtf \in RoundTripDocs
  /\ chunks = split_document(chunking_manager, original_rtf)
  /\ doc_chunks = chunks
  /\ max_workers_arg \in 1..MaxWorkersArg
  /\ max_workers = EffectiveWorkers(Len(chunks), max_workers_arg)
  /\ threads = 0
  /\ fstate = [i \in Idx |-> "NONE"]
  /\ fres = [i \in Idx |-> None]
  /\ yielded = {}
  /\ processed_chunks = [i \in Idx |-> None]
  /\ cancel_pos = 0
  /\ raised = NoExc
  /\ outcome = [i \in Idx |-> None]
  /\ started_after = {}
  /\ instruction_hits = FALSE
  /\ result = None
  /\ targets = << >>
  /\ final_rtf = NoText
  /\ timed_out = {}
  /\ score_calls = 0
  /\ evaluation_seen = None
  /\ configured = 0
  /\ max_iterations = 0
  /\ iteration = 0
  /\ current_rtf = << >>
  /\ iterations_used = 0
  /\ final_score = NoScore
  /\ kickoffs = 0
  /\ satisfied_at = <<0, NoScore>>
  /\ modify_call = None
  /\ round_result = None
  /\ failed = None
  /\ stub_d = TRUE
  /\ CallIdle /\ StoreIdle

\* lines 352-386 applied to what process_chunks_parallel returned
PoolReassemble ==
  /\ entry = "process_chunks_parallel"
  /\ pc = "returned"
  /\ final_rtf = NoText
  /\ doc_chunks # << >>
  /\ final_rtf' = reassemble_chunks(processed_chunks)
  /\ pc' = "reassembled"
  /\ UNCHANGED <<entry, poolVars, original_rtf, instruction_hits, result, doc_chunks, targets,
                 timed_out, score_calls, evaluation_seen, loopVars>>
  /\ UNCHANGED <<callVars, storeVars>>

NextRoundTrip == NextPool \/ PoolReassemble

SpecRoundTrip == InitRoundTrip /\ [][NextRoundTrip]_vars

\* ------------------------------------------------ ContractProcessingCrew
\* crew_manager.py line 309
OrchestratorMaxWorkers == 5
\* crew_manager.py line 68: prompt_settings.critic.minimum_score, in hundredths
minimum_score == 85
\* crew_manager.py line 160: min(max_iterations, 3)
IterationCap == 3
\* crew_manager.py line 210: the factor 0.85, in hundredths
LeniencyFactor == 85

\* largest max_iterations a configuration asks for
MaxIterationsCfg == 4

\* scores a critic may report, in hundredths
Scores == {50, 72, 73, 90}

\* line 370
default_evaluation == [kind |-> "dict", satisfied |-> FALSE, overall_score |-> 0]

\* the critic's output: no braces at all, braces that do not parse, or a dict
\* (whose overall_score key may be missing)
CriticOutputs ==
  { [text |-> <<"j">>, json |-> [kind |-> "nojson"]],
    [text |-> <<"j">>, json |-> [kind |-> "badjson"]] }
  \cup { [text |-> <<"j">>, json |-> [kind |-> "dict", satisfied |-> sat, overall_score |-> sc]] :
           sat \in BOOLEAN, sc \in Scores \cup {NoScore} }

\* evaluation_result.get('overall_score', 0.0)
GetOverallScore(ev) == IF ev.overall_score = NoScore THEN 0 ELSE ev.overall_score

\* variant: output that does not parse counts as a satisfied evaluation
ParseEvaluationSatisfied(task_output) ==
  IF task_output.json.kind = "dict" THEN task_output.json
  ELSE [kind |-> "dict", satisfied |-> TRUE, overall_score |-> 90]

\* lines 391-401: what the second task's output parses to
ParseEvaluation(task_output) ==
  IF task_output.json.kind = "dict" THEN task_output.json
  ELSE IF task_output.json.kind = "badjson" THEN default_evaluation
  ELSE None

\* lines 360-419: (modified_rtf, evaluation); task 0 is read as the actor,
\* task 1 as the critic; an empty first output ends in the NameError of
\* line 403, which the handler of line 415 turns into the fallback pair
extract_crew_results(crew_result, fallback_rtf) ==
  LET tasks_output == crew_result.tasks_output IN
  IF tasks_output = << >>
    THEN << fallback_rtf, default_evaluation >>
    ELSE LET modified_rtf == tasks_output[1].text
             evaluation_data == IF Len(tasks_output) >= 2
                                  THEN ParseEvaluation(tasks_output[2])
                                  ELSE None
         IN IF modified_rtf = << >>
              THEN << fallback_rtf, default_evaluation >>
              ELSE << modified_rtf,
                      IF evaluation_data = None THEN default_evaluation ELSE evaluation_data >>

\* variant: output of exactly half the original length counts as too short
extract_chunk_result_le(crew_result, original_chunk) ==
  LET was_modified == crew_result.marker = "CHUNK_MODIFIED"
      content == crew_result.content
  IN IF content = << >> \/ Len(content) * 2 <= Len(original_chunk)
       THEN Tuple(original_chunk, FALSE)
       ELSE Tuple(content, was_modified)

\* lines 421-443; crew_result.content is str(crew_result) with the indicators
\* removed and stripped, crew_result.marker the indicator it carried
extract_chunk_result(crew_result, original_chunk) ==
  LET was_modified == crew_result.marker = "CHUNK_MODIFIED"
      content == crew_result.content
  IN IF content = << >> \/ Len(content) * 2 < Len(original_chunk)
       THEN Tuple(original_chunk, FALSE)
       ELSE Tuple(content, was_modified)

\* what crew.kickoff for one chunk may do
ChunkKickoffs(chunk) ==
  { [kind |-> "ret", marker |-> "CHUNK_MODIFIED", content |-> <<"p">> \o chunk],
    [kind |-> "ret", marker |-> "CHUNK_UNCHANGED", content |-> chunk],
    [kind |-> "ret", marker |-> "CHUNK_MODIFIED", content |-> <<"z">>],
    [kind |-> "exc", msg |-> <<"Processing", "error">>],
    [kind |-> "exc", msg |-> <<"AWS", "Credentials", "Error", ":", "expired">>] }

\* a CrewProcessingResult
Result(success, text, used, score, error) ==
  [kind |-> "result", success |-> success, final_rtf |-> text, iterations_used |-> used,
   final_score |-> score, error_message |-> error]

\* variant: the text is handed out whatever success is
FinalTextAlways(success, text) == text

\* lines 215 and 272: final_rtf=... if success else None
FinalText(success, text) == IF success THEN text ELSE NoText

\* variant: the exception is not turned into a result
process_contract_except_none(e) == None

\* lines 140-151: process_contract's handler, the message abridged to its prefix
process_contract_except(e) == Result(FALSE, NoText, 0, NoScore, "Processing failed")

\* lines 288-299: _process_with_chunking's handler, the message abridged to its prefix
process_with_chunking_except(e) == Result(FALSE, NoText, 0, NoScore, "Chunked processing failed")

\* documents: one to MaxChunks blocks of chunk_size characters, the last of
\* them possibly the word "Term", and the shorter documents
Block(marked) == IF marked THEN <<"T","e","r","m">> ELSE <<"a","b","c","d">>
DocOf(n, k) == Concat([i \in 1..n |-> Block(i = k)])
Docs ==
  UNION { { DocOf(n, 0), DocOf(n, n) } : n \in 1..MaxChunks }
  \cup { SubSeq(Block(FALSE), 1, l) : l \in 1..3 }

PoolIdle ==
  /\ chunks = << >>
  /\ max_workers_arg = 0
  /\ max_workers = 0
  /\ threads = 0
  /\ fstate = << >>
  /\ fres = << >>
  /\ yielded = {}
  /\ processed_chunks = << >>
  /\ cancel_pos = 0
  /\ raised = NoExc
  /\ outcome = << >>
  /\ started_after = {}

InitContract ==
  /\ entry = "process_contract"
  /\ pc = "start"
  /\ original_rtf \in Docs
  /\ instruction_hits \in BOOLEAN
  /\ result = None
  /\ doc_chunks = << >>
  /\ targets = << >>
  /\ final_rtf = NoText
  /\ timed_out = {}
  /\ score_calls = 0
  /\ evaluation_seen = None
  /\ configured = 0
  /\ max_iterations = 0
  /\ iteration = 0
  /\ current_rtf = << >>
  /\ iterations_used = 0
  /\ final_score = NoScore
  /\ kickoffs = 0
  /\ satisfied_at = <<0, NoScore>>
  /\ modify_call = None
  /\ round_result = None
  /\ failed = None
  /\ stub_d = TRUE
  /\ PoolIdle
  /\ CallIdle /\ StoreIdle

\* lines 131-136 and 231-242, 308-325: the chunked path up to the executor
StartChunked ==
  /\ entry = "process_contract"
  /\ pc = "start"
  /\ should_chunk_document(chunking_manager, original_rtf)
  /\ doc_chunks' = split_document(chunking_manager, original_rtf)
  /\ targets' = find_instruction_targets(instruction_hits, original_rtf)
  /\ chunks' = prioritize_chunks(doc_chunks', targets')
  /\ max_workers_arg' = OrchestratorMaxWorkers
  /\ max_workers' = OrchestratorMaxWorkers
  /\ fstate' = [i \in 1..Len(chunks') |-> "NONE"]
  /\ fres' = [i \in 1..Len(chunks') |-> None]
  /\ processed_chunks' = [i \in 1..Len(chunks') |-> None]
  /\ outcome' = [i \in 1..Len(chunks') |-> None]
  /\ pc' = "submit"
  /\ UNCHANGED <<entry, threads, yielded, cancel_pos, raised, started_after,
                 original_rtf, instruction_hits, result, final_rtf, timed_out, score_calls,
                 evaluation_seen, loopVars>>
  /\ UNCHANGED <<callVars, storeVars>>

\* lines 328-336: future = executor.submit(crew.kickoff, inputs=context)
OrchSubmit ==
  /\ entry = "process_contract"
  /\ pc = "submit"
  /\ \E i \in Idx :
       /\ fstate[i] = "NONE"
       /\ \A j \in 1..(i - 1) : fstate[j] # "NONE"
       /\ ExecutorSubmit(i)
       /\ pc' = IF i = Len(chunks) THEN "collect" ELSE "submit"
  /\ UNCHANGED <<contractVars, entry, chunks, max_workers_arg, max_workers, fres, yielded,
                 processed_chunks, cancel_pos, raised, outcome, started_after>>
  /\ UNCHANGED <<callVars, storeVars>>

\* crew.kickoff of one chunk ends on a worker thread
OrchWorkerFinish ==
  /\ entry = "process_contract"
  /\ \E i \in Running : \E out \in ChunkKickoffs(chunks[i]) :
       /\ fres' = [fres EXCEPT ![i] = out]
       /\ fstate' = [fstate EXCEPT ![i] = "FINISHED"]
  /\ UNCHANGED <<contractVars, entry, pc, chunks, max_workers_arg, max_workers, threads, yielded,
                 processed_chunks, cancel_pos, raised, outcome, started_after>>
  /\ UNCHANGED <<callVars, storeVars>>

\* lines 340-352: one round of `for future in as_completed(..., timeout)`;
\* processed_chunks holds the dict `results` until line 355
OrchCollect ==
  /\ entry = "process_contract"
  /\ pc = "collect"
  /\ \E i \in Done \ yielded :
       /\ yielded' = yielded \cup {i}
       /\ processed_chunks' =
            [processed_chunks EXCEPT ![i] =
               IF fres[i].kind = "ret"
                 THEN extract_chunk_result(fres[i], chunks[i])
                 ELSE Tuple(chunks[i], FALSE)]
       /\ pc' = IF yielded' = Idx THEN "reassemble" ELSE "collect"
  /\ UNCHANGED <<contractVars, entry, chunks, max_workers_arg, max_workers, threads, fstate, fres,
                 cancel_pos, raised, outcome, started_after>>
  /\ UNCHANGED <<callVars, storeVars>>

\* line 340: as_completed raises TimeoutError when chunk_timeout seconds have
\* passed and some future has not finished; the error leaves the for loop
OrchTimeout ==
  /\ entry = "process_contract"
  /\ pc = "collect"
  /\ Idx \ Done # {}
  /\ timed_out' = Idx \ Done
  /\ raised' = <<"TimeoutError">>
  /\ pc' = "shutdown"
  /\ UNCHANGED <<entry, chunks, max_workers_arg, max_workers, threads, fstate, fres, yielded,
                 processed_chunks, cancel_pos, outcome, started_after,
                 original_rtf, instruction_hits, result, doc_chunks, targets, final_rtf,
                 score_calls, evaluation_seen, loopVars>>
  /\ UNCHANGED <<callVars, storeVars>>

\* leaving `with` (line 325) waits for the workers; lines 288-299 then turn
\* the exception into the failure result
OrchFail ==
  /\ entry = "process_contract"
  /\ pc = "shutdown"
  /\ Running = {} /\ Pending = {}
  /\ result' = process_with_chunking_except(raised)
  /\ pc' = "done"
  /\ UNCHANGED <<entry, poolVars, original_rtf, instruction_hits, chunkedVars, loopVars>>
  /\ UNCHANGED <<callVars, storeVars>>

\* what the evaluation crew's kickoff may do: its only task is the critic's
EvaluationKickoffs ==
  { [kind |-> "exc", msg |-> <<"Processing", "error">>] }
  \cup { [kind |-> "ret", tasks_output |-> << c >>] : c \in CriticOutputs }

\* line 267
ChunkedSuccess(score) == score >= minimum_score

\* lines 354-358 and 244-299: the ordered list, reassembly, the one
\* evaluation and the result
OrchFinish ==
  /\ entry = "process_contract"
  /\ pc = "reassemble"
  /\ processed_chunks' =
       [i \in Idx |-> IF processed_chunks[i] = None THEN Tuple(chunks[i], FALSE)
                      ELSE processed_chunks[i]]
  /\ final_rtf' = reassemble_chunks(processed_chunks')
  /\ score_calls' = score_calls + 1
  /\ \E ev \in EvaluationKickoffs :
       /\ evaluation_seen' = ev
       /\ IF ev.kind = "exc"
         THEN result' = process_with_chunking_except(ev.msg)
         ELSE LET evaluation_data == extract_crew_results(ev, << >>)[2]
                  score == GetOverallScore(evaluation_data)
                  success == ChunkedSuccess(score)
              IN result' = Result(success, FinalText(success, final_rtf'), 1, score,
                                  IF success THEN "None"
                                  ELSE "Chunked processing quality score below threshold")
  /\ pc' = "done"
  /\ UNCHANGED <<entry, chunks, max_workers_arg, max_workers, threads, fstate, fres, yielded,
                 cancel_pos, raised, outcome, started_after,
                 original_rtf, instruction_hits, doc_chunks, targets, timed_out, loopVars>>
  /\ UNCHANGED <<callVars, storeVars>>

\* what the actor/critic crew's kickoff may do in one round, the actor
\* having been given the document `text`: raise, return without task outputs,
\* or return the actor's text (possibly empty) and the critic's output
LoopKickoffs(text) ==
  { [kind |-> "exc", msg |-> <<"Processing", "error">>],
    [kind |-> "ret", tasks_output |-> << >>] }
  \cup { [kind |-> "ret", tasks_output |-> << [text |-> a, json |-> [kind |-> "nojson"]], c >>] :
           a \in { << >>, text \o <<"x">> }, c \in CriticOutputs }

\* lines 171-177: the context dictionary of one round
RoundContext(iter) ==
  [original_rtf |-> original_rtf, current_rtf |-> current_rtf, attempt_number |-> iter]

\* tasks.py lines 22-75: the text under "DOCUMENT TO MODIFY" in the actor's task
contract_modification_task(context) == context.original_rtf

\* variant: the relaxation needs three rounds
LoopSuccessStrict(score, used) ==
  score # NoScore /\ (score * 100 >= minimum_score * LeniencyFactor \/ used >= 3)

\* line 210
LoopSuccess(score, used) ==
  score # NoScore /\ (score * 100 >= minimum_score * LeniencyFactor \/ used >= 2)

\* variant: a failed round never fails the job
ReraiseOnFailureNever(iter) == FALSE

\* variant: a failed round always fails the job
ReraiseOnFailureAlways(iter) == TRUE

\* lines 190-196: the exception of a round is raised again in round 1 only
ReraiseOnFailure(iter) == iter = 1

\* variant: a satisfied evaluation does not end the loop
BreakOnSatisfiedNever(evaluation_result) == FALSE

\* line 202
BreakOnSatisfied(evaluation_result) == evaluation_result.satisfied

\* variant: the configuration's max_iterations taken as it is
CappedIterationsNoCap(cfg) == cfg

\* line 160
CappedIterations(cfg) == Min(cfg, IterationCap)

\* lines 131-138 and 160-166: the single-document path up to the loop
StartSingle ==
  /\ entry = "process_contract"
  /\ pc = "start"
  /\ ~should_chunk_document(chunking_manager, original_rtf)
  /\ configured' \in 0..MaxIterationsCfg
  /\ max_iterations' = CappedIterations(configured')
  /\ current_rtf' = original_rtf
  /\ iterations_used' = 0
  /\ final_score' = NoScore
  /\ iteration' = 1
  /\ pc' = "loop"
  /\ UNCHANGED <<entry, poolVars, original_rtf, instruction_hits, result, chunkedVars,
                 kickoffs, satisfied_at, stub_d, modify_call, failed, round_result>>
  /\ UNCHANGED <<callVars, storeVars>>

\* lines 168-207: one round of the loop
LoopRound ==
  /\ entry = "process_contract"
  /\ pc = "loop"
  /\ iteration <= max_iterations
  /\ iterations_used' = iteration
  /\ kickoffs' = kickoffs + 1
  /\ modify_call' = [kind |-> "call", document |-> contract_modification_task(RoundContext(iteration)),
                      current_rtf |-> current_rtf]
  /\ \E crew_result \in LoopKickoffs(contract_modification_task(RoundContext(iteration))) :
       /\ round_result' = crew_result
       /\ IF crew_result.kind = "exc"
         THEN /\ IF ReraiseOnFailure(iteration)
                   THEN /\ result' = process_contract_except(crew_result.msg)
                        /\ pc' = "done"
                   ELSE /\ result' = result
                        /\ pc' = "break"
              /\ stub_d' = FALSE
              /\ failed' = [kind |-> "failed", round |-> iteration, current_rtf |-> current_rtf,
                             final_score |-> final_score]
              /\ UNCHANGED <<current_rtf, final_score, iteration, satisfied_at>>
         ELSE LET extracted == extract_crew_results(crew_result, original_rtf)
                  modified_rtf == extracted[1]
                  evaluation_result == extracted[2]
              IN /\ current_rtf' = IF modified_rtf # << >> THEN modified_rtf ELSE current_rtf
                 /\ final_score' = GetOverallScore(evaluation_result)
                 /\ stub_d' = (stub_d /\ ~evaluation_result.satisfied
                                 /\ evaluation_result.overall_score = 50)
                 /\ IF BreakOnSatisfied(evaluation_result)
                      THEN /\ pc' = "break"
                           /\ iteration' = iteration
                           /\ satisfied_at' = <<iteration, GetOverallScore(evaluation_result)>>
                      ELSE /\ pc' = "loop"
                           /\ iteration' = iteration + 1
                           /\ satisfied_at' = IF evaluation_result.satisfied
                                                THEN <<iteration, GetOverallScore(evaluation_result)>>
                                                ELSE satisfied_at
                 /\ result' = result
                 /\ failed' = failed
  /\ UNCHANGED <<entry, poolVars, original_rtf, instruction_hits, chunkedVars, configured,
                 max_iterations>>
  /\ UNCHANGED <<callVars, storeVars>>

\* lines 209-222: after the loop
LoopReturn ==
  /\ entry = "process_contract"
  /\ \/ pc = "break"
     \/ pc = "loop" /\ iteration > max_iterations
  /\ LET success == LoopSuccess(final_score, iterations_used)
     IN result' = Result(success, FinalText(success, current_rtf), iterations_used,
                         final_score, IF success THEN "None" ELSE "Processing incomplete")
  /\ pc' = "done"
  /\ UNCHANGED <<entry, poolVars, original_rtf, instruction_hits, chunkedVars, loopVars>>
  /\ UNCHANGED <<callVars, storeVars>>

\* longest chunk handed to _extract_chunk_result on its own
MaxChunkLen == 4

\* str(crew_result) of a chunk crew: an indicator (or none) and the content
ChunkOutputs ==
  { [kind |-> "ret", marker |-> m, content |-> [j \in 1..n |-> "p"]] :
      m \in {"CHUNK_MODIFIED", "CHUNK_UNCHANGED", "none"}, n \in 0..(MaxChunkLen + 1) }

\* a call of _extract_chunk_result(crew_result, original_chunk) on its own
InitChunkResult ==
  /\ entry = "_extract_chunk_result"
  /\ pc = "start"
  /\ \E n \in 0..MaxChunkLen : chunks = << PoolChunk(n) >>
  /\ \E out \in ChunkOutputs : fres = << out >>
  /\ fstate = << "FINISHED" >>
  /\ processed_chunks = << None >>
  /\ outcome = << None >>
  /\ max_workers_arg = 0
  /\ max_workers = 0
  /\ threads = 0
  /\ yielded = {}
  /\ cancel_pos = 0
  /\ raised = NoExc
  /\ started_after = {}
  /\ ContractIdle
  /\ CallIdle /\ StoreIdle

\* lines 421-443
ExtractChunkResult ==
  /\ entry = "_extract_chunk_result"
  /\ pc = "start"
  /\ processed_chunks' = << extract_chunk_result(fres[1], chunks[1]) >>
  /\ yielded' = {1}
  /\ pc' = "returned"
  /\ UNCHANGED <<contractVars, entry, chunks, max_workers_arg, max_workers, threads, fstate, fres,
                 cancel_pos, raised, outcome, started_after>>
  /\ UNCHANGED <<callVars, storeVars>>

NextContract ==
  \/ StartChunked
  \/ OrchSubmit
  \/ WorkerStart
  \/ OrchWorkerFinish
  \/ OrchCollect
  \/ OrchTimeout
  \/ OrchFail
  \/ OrchFinish
  \/ StartSingle
  \/ LoopRound
  \/ LoopReturn

SpecContract == InitContract /\ [][NextContract]_vars

\* the chunked path together with _extract_chunk_result on inputs of its own
InitChunkResultOrContract == InitChunkResult \/ InitContract

NextChunkResult == ExtractChunkResult \/ NextContract

SpecChunkResult == InitChunkResultOrContract /\ [][NextChunkResult]_vars

Init == InitPool \/ InitContract

Next == NextPool \/ NextContract

Spec == Init /\ [][Next]_vars

\* --------------------------- one method of the chunking manager, on its own
\* longest document handed to split_document on its own
MaxDocLen == 6
\* largest chunk_overlap of a manager
MaxOverlap == 1

\* DocumentChunkingManager(chunk_size, chunk_overlap), lines 27-42
Managers ==
  { [chunk_size |-> s, chunk_overlap |-> o] : s \in 3..4, o \in 0..MaxOverlap }

\* documents of letters and spaces
SplitDocs == UNION { [1..n -> {"a", "b", " "}] : n \in 0..MaxDocLen }

\* the call has not begun anything else
CallStart ==
  /\ pc = "call"
  /\ returned = None
  /\ PoolIdle
  /\ ContractIdle
  /\ StoreIdle

\* what a call hands back
Value(v) == [kind |-> "value", value |-> v]
Raise(e) == [kind |-> "raise", exc |-> e]

InitSplitDocument ==
  /\ entry = "split_document"
  /\ manager \in Managers
  /\ \E d \in SplitDocs : args = [document_content |-> d]
  /\ CallStart

\* lines 56-71
SplitDocument ==
  /\ entry = "split_document"
  /\ pc = "call"
  /\ returned' = Value(split_document(manager, args.document_content))
  /\ pc' = "returned"
  /\ UNCHANGED <<entry, poolVars, contractVars, manager, args, storeVars>>

\* most chunks in a list handed to validate_chunk_integrity on its own
MaxIntegrityChunks == 2

\* chunk lists: up to MaxIntegrityChunks chunks of up to MaxChunkLen characters
IntegrityChunkLists ==
  UNION { [1..n -> { PoolChunk(l) : l \in 0..MaxChunkLen }] : n \in 0..MaxIntegrityChunks }

RECURSIVE TotalLength(_)
\* sum(len(chunk) for chunk in chunks)
TotalLength(cs) == IF cs = << >> THEN 0 ELSE Len(Head(cs)) + TotalLength(Tail(cs))

Abs(n) == IF n < 0 THEN -n ELSE n

\* lines 388-414; abs(p - o) / o > 0.5 is 2 * abs(p - o) > o in integers (the
\* quotient of two lengths is exactly 0.5 when it is one half), and dividing
\* by a total of 0 raises ZeroDivisionError
validate_chunk_integrity(original, processed) ==
  IF Len(original) # Len(processed) THEN Value(FALSE)
  ELSE LET original_total_length == TotalLength(original)
           processed_total_length == TotalLength(processed)
       IN IF original_total_length = 0 THEN Raise("ZeroDivisionError")
          ELSE IF 2 * Abs(processed_total_length - original_total_length) > original_total_length
            THEN Value(FALSE)
            ELSE Value(TRUE)

InitValidateChunkIntegrity ==
  /\ entry = "validate_chunk_integrity"
  /\ manager = chunking_manager
  /\ \E o \in IntegrityChunkLists, p \in IntegrityChunkLists :
       args = [original_chunks |-> o, processed_chunks |-> p]
  /\ CallStart

\* lines 388-414
ValidateChunkIntegrity ==
  /\ entry = "validate_chunk_integrity"
  /\ pc = "call"
  /\ returned' = validate_chunk_integrity(args.original_chunks, args.processed_chunks)
  /\ pc' = "returned"
  /\ UNCHANGED <<entry, poolVars, contractVars, manager, args, storeVars>>

\* find_instruction_targets with the instruction's phrases given and context
\* windows that are shorter than the documents: the 100, 200 and 50
\* characters of lines 108-109, 146-147 and 174-175 become WindowBefore,
\* WindowAfter and FieldWindowBefore
WindowBefore == 2
WindowAfter == 4
FieldWindowBefore == 1
\* most blocks in a document handed to find_instruction_targets
MaxTargetBlocks == 3

Max(a, b) == IF a >= b THEN a ELSE b

\* hay.find(needle, start): 0-based position of the first match at or after
\* start, -1 if none
FindFrom(hay, needle, start) ==
  LET at == { k \in start..(Len(hay) - Len(needle)) : SubSeq(hay, k + 1, k + Len(needle)) = needle }
  IN IF at = {} THEN -1 ELSE CHOOSE k \in at : \A j \in at : k <= j

RECURSIVE AllOccurrences(_, _, _)
\* lines 101-114 and 167-180: the positions the while loop visits
AllOccurrences(doc_lower, text_lower, start_pos) ==
  IF start_pos >= Len(doc_lower) THEN << >>
  ELSE LET found_pos == FindFrom(doc_lower, text_lower, start_pos)
       IN IF found_pos = -1 THEN << >>
          ELSE << found_pos >> \o AllOccurrences(doc_lower, text_lower, found_pos + Len(text_lower))

\* document[context_start:context_end]
ContextWindow(document, found_pos, length, before) ==
  SubSeq(document, Max(0, found_pos - before) + 1,
         Min(Len(document), found_pos + length + WindowAfter))

\* the windows of every occurrence of text
WindowsOf(text, document, before) ==
  LET found == AllOccurrences(Lower(document), Lower(text), 0)
  IN [k \in DOMAIN found |-> ContextWindow(document, found[k], Len(text), before)]

RECURSIVE QuotedTargets(_, _)
\* lines 94-114: the quoted texts of the instruction
QuotedTargets(quoted_text, document) ==
  IF quoted_text = << >> THEN << >>
  ELSE (IF Len(Head(quoted_text)) > 3 THEN WindowsOf(Head(quoted_text), document, WindowBefore)
        ELSE << >>)
       \o QuotedTargets(Tail(quoted_text), document)

RECURSIVE VerbTargets(_, _)
\* lines 120-149: the search_terms that follow the verbs, first match only
VerbTargets(search_terms, document) ==
  IF search_terms = << >> THEN << >>
  ELSE LET found_pos == Find(Lower(document), Lower(Head(search_terms)))
       IN (IF Len(Head(search_terms)) > 3 /\ found_pos >= 0
             THEN << ContextWindow(document, found_pos, Len(Head(search_terms)), WindowBefore) >>
             ELSE << >>)
          \o VerbTargets(Tail(search_terms), document)

\* lines 152-157, two of the fields
common_fields == << <<"t","e","r","m">>, <<"f","e","e">> >>

RECURSIVE FieldTargets(_, _, _)
\* lines 160-180: the fields the instruction mentions
FieldTargets(fields, mentioned, document) ==
  IF fields = << >> THEN << >>
  ELSE (IF Head(fields) \in mentioned THEN WindowsOf(Head(fields), document, FieldWindowBefore)
        ELSE << >>)
       \o FieldTargets(Tail(fields), mentioned, document)

\* variant: only a target inside a kept one counts as a duplicate
IsDuplicateSubstringOnly(target, kept) ==
  \E i \in DOMAIN kept : Contains(kept[i], target)

\* lines 186-191
IsDuplicate(target, kept) ==
  \E i \in DOMAIN kept : Contains(kept[i], target) \/ Contains(target, kept[i])

RECURSIVE UniqueFrom(_, _)
UniqueFrom(tgts, kept) ==
  IF tgts = << >> THEN kept
  ELSE UniqueFrom(Tail(tgts), IF IsDuplicate(Head(tgts), kept) THEN kept
                               ELSE Append(kept, Head(tgts)))

\* lines 183-194
unique_targets(tgts) == UniqueFrom(tgts, << >>)

\* lines 87-180: the targets of the three passes, in the order found
AllTargets(instruction, document) ==
  QuotedTargets(instruction.quoted_text, document)
    \o VerbTargets(instruction.search_terms, document)
    \o FieldTargets(common_fields, instruction.fields, document)

\* lines 73-197
FindInstructionTargets(instruction, document) ==
  unique_targets(AllTargets(instruction, document))

\* what the regular expressions and the vocabularies find in an instruction
Instructions ==
  { [quoted_text |-> q, search_terms |-> v, fields |-> f] :
      q \in { << >>, << <<"a","c","m","e">> >>, << <<"a","c","m","e">>, <<"t","e","r","m">> >>,
              << <<"x","y">> >> },
      v \in { << >>, << <<"t","e","r","m">> >>, << <<"a","c","m","e">> >> },
      f \in SUBSET { <<"t","e","r","m">>, <<"f","e","e">> } }

TargetBlocks == { <<"a","c","m","e">>, <<"T","e","r","m">>, <<"f","e","e">>, <<"x","y">> }

\* documents of up to MaxTargetBlocks blocks
TargetDocs == { Concat(bs) : bs \in UNION { [1..n -> TargetBlocks] : n \in 0..MaxTargetBlocks } }

InitFindInstructionTargets ==
  /\ entry = "find_instruction_targets"
  /\ manager = chunking_manager
  /\ \E i \in Instructions, d \in TargetDocs : args = [instruction |-> i, document |-> d]
  /\ CallStart

\* lines 73-197
FindTargets ==
  /\ entry = "find_instruction_targets"
  /\ pc = "call"
  /\ returned' = Value(FindInstructionTargets(args.instruction, args.document))
  /\ pc' = "returned"
  /\ UNCHANGED <<entry, poolVars, contractVars, manager, args, storeVars>>

\* most chunks in a list handed to prioritize_chunks on its own
MaxRankChunks == 3

\* the phrase of a target, and a window of more than 10 characters around it
Phrase == <<"x","y">>
LongTarget == <<"a","b","x","y","a","b","x","y","a","b","x","y">>

\* chunks without the phrase, with it once (at the start, at the end), with it
\* twice, with a structure marker only, and the second half of LongTarget
RankChunks ==
  { <<"a","b">>, <<"x","y","a","b">>, <<"a","b","x","y">>, <<"x","y","x","y">>,
    <<"t","e","r","m">>, <<"x","y","a","b","x","y">> }

RankChunkLists == UNION { [1..n -> RankChunks] : n \in 0..MaxRankChunks }

RankTargetLists == { << >>, << Phrase >>, << LongTarget >>, << Phrase, LongTarget >> }

InitPrioritizeChunks ==
  /\ entry = "prioritize_chunks"
  /\ manager = chunking_manager
  /\ \E cs \in RankChunkLists, tgts \in RankTargetLists : args = [chunks |-> cs, targets |-> tgts]
  /\ CallStart

\* lines 199-279
PrioritizeChunks ==
  /\ entry = "prioritize_chunks"
  /\ pc = "call"
  /\ returned' = Value(prioritize_chunks(args.chunks, args.targets))
  /\ pc' = "returned"
  /\ UNCHANGED <<entry, poolVars, contractVars, manager, args, storeVars>>

InitChunkingManager ==
  \/ InitSplitDocument
  \/ InitValidateChunkIntegrity
  \/ InitFindInstructionTargets
  \/ InitPrioritizeChunks

NextChunkingManager ==
  \/ SplitDocument
  \/ ValidateChunkIntegrity
  \/ FindTargets
  \/ PrioritizeChunks

SpecChunkingManager == InitChunkingManager /\ [][NextChunkingManager]_vars

\* ------------------------------------------------------------ MemoryStorage
\* memory_storage.py; the threads are those of test_thread_safety
\* (tests/test_memory_storage.py lines 321-378): each worker creates a job,
\* updates it to processing / 50 and to completed / 100, and appends its id
\* to the shared list; the main thread joins the workers and reads every job
NumThreads == 2
JobsPerThread == 2

Workers == 1..NumThreads

\* str(uuid.uuid4()): an id no other call gets
uuid4(t, i) == << t, i >>

\* lines 88-97
JobData(job_id) == [job_id |-> job_id, status |-> "queued", progress |-> 0]

\* line 143: min(100, max(0, progress))
ClampProgress(progress) == Min(100, Max(0, progress))

\* the arguments of the worker's two update_job_status calls (test lines 343-344)
UpdateArgs(position) ==
  IF position = "update1" THEN [status |-> "processing", progress |-> 50]
  ELSE [status |-> "completed", progress |-> 100]

InitStore ==
  /\ entry = "test_thread_safety"
  /\ pc = "threads"
  /\ storage = << >>
  /\ lock = 0
  /\ worker_pc = [t \in Workers |-> "create"]
  /\ worker_i = [t \in Workers |-> 0]
  /\ worker_job = [t \in Workers |-> None]
  /\ results = << >>
  /\ main_pc = "join"
  /\ completed_count = 0
  /\ PoolIdle
  /\ ContractIdle
  /\ CallIdle

\* variant: the lock is taken without waiting for it to be free
AcquireNoWait(t) == lock' = t

\* `with self._lock:` entered by thread t
Acquire(t) ==
  /\ lock = 0
  /\ lock' = t

\* create_job, lines 84-87: the id is drawn, the lock taken
CreateJobAcquire ==
  /\ entry = "test_thread_safety"
  /\ \E t \in Workers :
       /\ worker_pc[t] = "create"
       /\ Acquire(t)
       /\ worker_job' = [worker_job EXCEPT ![t] = uuid4(t, worker_i[t])]
       /\ worker_pc' = [worker_pc EXCEPT ![t] = "create_locked"]
  /\ UNCHANGED <<entry, pc, poolVars, contractVars, callVars, storage, worker_i, results, main_pc,
                 completed_count>>

\* create_job, lines 88-102: the job is stored, the lock released
CreateJobStore ==
  /\ entry = "test_thread_safety"
  /\ \E t \in Workers :
       /\ worker_pc[t] = "create_locked"
       /\ lock = t
       /\ storage' = [j \in DOMAIN storage \cup {worker_job[t]} |->
                        IF j = worker_job[t] THEN JobData(j) ELSE storage[j]]
       /\ lock' = 0
       /\ worker_pc' = [worker_pc EXCEPT ![t] = "update1"]
  /\ UNCHANGED <<entry, pc, poolVars, contractVars, callVars, worker_i, worker_job, results, main_pc,
                 completed_count>>

\* update_job_status, line 134: the lock taken
UpdateJobStatusAcquire ==
  /\ entry = "test_thread_safety"
  /\ \E t \in Workers :
       /\ worker_pc[t] \in {"update1", "update2"}
       /\ Acquire(t)
       /\ worker_pc' = [worker_pc EXCEPT ![t] = IF worker_pc[t] = "update1" THEN "update1_locked"
                                                 ELSE "update2_locked"]
  /\ UNCHANGED <<entry, pc, poolVars, contractVars, callVars, storage, worker_i, worker_job, results,
                 main_pc, completed_count>>

\* update_job_status, lines 135-149: the job is looked up and changed, the lock released
UpdateJobStatusStore ==
  /\ entry = "test_thread_safety"
  /\ \E t \in Workers :
       /\ worker_pc[t] \in {"update1_locked", "update2_locked"}
       /\ lock = t
       /\ LET job_id == worker_job[t]
              a == UpdateArgs(IF worker_pc[t] = "update1_locked" THEN "update1" ELSE "update2")
          IN storage' = IF job_id \in DOMAIN storage
                          THEN [storage EXCEPT ![job_id].status = a.status,
                                               ![job_id].progress = ClampProgress(a.progress)]
                          ELSE storage
       /\ lock' = 0
       /\ worker_pc' = [worker_pc EXCEPT ![t] = IF worker_pc[t] = "update1_locked" THEN "update2"
                                                 ELSE "append"]
  /\ UNCHANGED <<entry, pc, poolVars, contractVars, callVars, worker_i, worker_job, results, main_pc,
                 completed_count>>

\* test line 346 and the loop of line 334: results.append(job_id), next i
WorkerAppend ==
  /\ entry = "test_thread_safety"
  /\ \E t \in Workers :
       /\ worker_pc[t] = "append"
       /\ results' = Append(results, worker_job[t])
       /\ worker_i' = [worker_i EXCEPT ![t] = worker_i[t] + 1]
       /\ worker_pc' = [worker_pc EXCEPT ![t] = IF worker_i[t] + 1 < JobsPerThread THEN "create"
                                                 ELSE "done"]
  /\ UNCHANGED <<entry, pc, poolVars, contractVars, callVars, storage, lock, worker_job, main_pc,
                 completed_count>>

\* test lines 359-360: thread.join() for every worker
MainJoin ==
  /\ entry = "test_thread_safety"
  /\ main_pc = "join"
  /\ \A t \in Workers : worker_pc[t] = "done"
  /\ main_pc' = "check"
  /\ UNCHANGED <<entry, pc, poolVars, contractVars, callVars, storage, lock, worker_pc, worker_i,
                 worker_job, results, completed_count>>

\* get_job, lines 114-115
get_job(job_id) == IF job_id \in DOMAIN storage THEN storage[job_id] ELSE None

\* test lines 363-374: the number of results, then get_job for each of them
MainCheck ==
  /\ entry = "test_thread_safety"
  /\ main_pc = "check"
  /\ lock = 0
  /\ completed_count' =
       Cardinality({ k \in DOMAIN results :
                       get_job(results[k]) # None /\ get_job(results[k]).status = "completed" })
  /\ main_pc' = IF /\ Len(results) = NumThreads * JobsPerThread
                   /\ \A k \in DOMAIN results : get_job(results[k]) # None
                   /\ completed_count' = NumThreads * JobsPerThread
                  THEN "passed" ELSE "failed"
  /\ UNCHANGED <<entry, pc, poolVars, contractVars, callVars, storage, lock, worker_pc, worker_i,
                 worker_job, results>>

NextStore ==
  \/ CreateJobAcquire
  \/ CreateJobStore
  \/ UpdateJobStatusAcquire
  \/ UpdateJobStatusStore
  \/ WorkerAppend
  \/ MainJoin
  \/ MainCheck

SpecStore == InitStore /\ [][NextStore]_vars

\* ------------------------------------------------------------ properties
\* what the caller must find in slot i once chunk i's future has been handled
Expected(i) ==
  IF outcome[i].kind = "ret"
    THEN Tuple(outcome[i].text, outcome[i].changed)
    ELSE Tuple(chunks[i], FALSE)

CredentialFailed(i) ==
  /\ outcome[i].kind = "exc"
  /\ HasCredentialMarker(outcome[i].msg)

OrdinaryFailed(i) ==
  /\ outcome[i].kind = "exc"
  /\ ~HasCredentialMarker(outcome[i].msg)

\* C1: process_chunks_parallel fills the result list by chunk index whatever
\* the completion order: a handled chunk's result is in its own slot, an
\* unhandled chunk's slot is still empty, and on normal return the list has
\* the input's length with every slot holding its own chunk's result.
C1_SlotsByIndex ==
  entry = "process_chunks_parallel" =>
    /\ DOMAIN processed_chunks = DOMAIN chunks
    /\ \A i \in Idx :
         /\ (i \in yielded /\ fres[i].kind = "ret")
              => processed_chunks[i] = Expected(i)
         /\ i \notin yielded => processed_chunks[i] = None
    /\ pc = "returned" => \A i \in Idx : processed_chunks[i] = Expected(i)

\* the last chunk completed and was stored before the first one was handled
C1_Witness ==
  /\ entry = "process_chunks_parallel"
  /\ Len(chunks) = 3
  /\ yielded = {3}
  /\ fstate[1] = "RUNNING"
  /\ processed_chunks[3] = Tuple(<<"p">> \o chunks[3], TRUE)
  /\ processed_chunks[1] = None

\* C5: when the transform of some chunk raised with a credential-failure
\* marker in its message, process_chunks_parallel never returns a result
\* list; when all its work has ended it has raised.
C5_CredentialErrorRaises ==
  (entry = "process_chunks_parallel" /\ \E i \in Idx : CredentialFailed(i)) =>
    /\ pc # "returned"
    /\ pc = "raised" => raised # NoExc /\ IsCriticalError(raised)

\* the marker was found only after lower-casing, another chunk had succeeded
C5_Witness ==
  /\ entry = "process_chunks_parallel"
  /\ pc = "raised"
  /\ Len(chunks) = 3
  /\ max_workers = 2
  /\ CredentialFailed(2)
  /\ outcome[2].msg = <<"Invalid", "Security", "Token">>
  /\ outcome[1].kind = "ret"
  /\ 1 \in yielded

\* C6: an exception without credential marker degrades only its own chunk to
\* (original text, changed = false); the other chunks keep what their
\* transform returned, and the call raises only if some chunk failed with a
\* credential marker.
C6_OrdinaryErrorIsolated ==
  (entry = "process_chunks_parallel" /\ Len(chunks) > 0) =>
    /\ pc \in {"cancel", "shutdown", "raised"} => \E i \in Idx : CredentialFailed(i)
    /\ pc = "returned" =>
         \A i \in Idx :
           /\ OrdinaryFailed(i) => processed_chunks[i] = Tuple(chunks[i], FALSE)
           /\ outcome[i].kind = "ret" => processed_chunks[i] = Tuple(outcome[i].text, outcome[i].changed)

C6_Witness ==
  /\ entry = "process_chunks_parallel"
  /\ pc = "returned"
  /\ Len(chunks) = 3
  /\ OrdinaryFailed(2)
  /\ processed_chunks[2] = Tuple(chunks[2], FALSE)
  /\ processed_chunks[1] = Tuple(<<"p">> \o chunks[1], TRUE)
  /\ processed_chunks[3] = Tuple(<<"p">> \o chunks[3], TRUE)

\* C8 (as claimed): after the credential failure has been caught no transform
\* is started for any chunk, and no result list reaches the caller.
C8_NoStartAfterDetection ==
  entry = "process_chunks_parallel" =>
    /\ started_after = {}
    /\ (\E i \in Idx : CredentialFailed(i)) => pc # "returned"


\* the position in document order of the chunk handed to the pool at pos
CanonicalIndex(pos) ==
  IF targets = << >> THEN pos ELSE prioritized_indices(doc_chunks, targets)[pos]

\* the processed text of the chunk that is j-th in document order
ProcessedInDocumentOrder(j) ==
  processed_chunks[CHOOSE pos \in Idx : CanonicalIndex(pos) = j].text

\* C2 (as claimed): the reassembled document is the concatenation of the
\* processed chunks in the splitter's document order, whatever the ranking.
C2_ReassembledInDocumentOrder ==
  (entry = "process_contract" /\ final_rtf # NoText) =>
    final_rtf = Concat([j \in 1..Len(doc_chunks) |-> ProcessedInDocumentOrder(j)])

\* C3 (as claimed): when as_completed ran out of time with a transform still
\* unfinished, the job still reassembles and scores; the unfinished chunks
\* fall back to (original text, changed = false) and the others keep their
\* processed results.
C3_TimeoutDegradesOneChunk ==
  (entry = "process_contract" /\ pc = "done" /\ timed_out # {}) =>
    /\ score_calls = 1
    /\ final_rtf # NoText
    /\ result.error_message # "Chunked processing failed"
    /\ \A i \in timed_out : processed_chunks[i] = Tuple(chunks[i], FALSE)
    /\ \A i \in yielded : fres[i].kind = "ret"
         => processed_chunks[i] = extract_chunk_result(fres[i], chunks[i])

\* C4 (as claimed): a credential-class failure of any chunk fails the whole
\* chunked job: success = false, no final text, an error message, the chunk
\* not replaced by its original text, no reassembly and no scoring.
C4_CredentialErrorFailsJob ==
  (/\ entry = "process_contract"
   /\ pc = "done"
   /\ \E i \in Idx : fres[i].kind = "exc" /\ HasCredentialMarker(fres[i].msg)) =>
    /\ result.success = FALSE
    /\ result.final_rtf = NoText
    /\ result.error_message = "Chunked processing failed"
    /\ final_rtf = NoText
    /\ score_calls = 0
    /\ \A i \in Idx : (fres[i].kind = "exc" /\ HasCredentialMarker(fres[i].msg))
         => processed_chunks[i] # Tuple(chunks[i], FALSE)

C9_LenientSuccess ==
  (entry = "process_contract" /\ pc = "done" /\ ~should_chunk_document(chunking_manager, original_rtf)) =>
    /\ result.success =
         (/\ result.final_score # NoScore
          /\ \/ result.final_score * 100 >= 85 * 85
             \/ result.iterations_used >= 2)
    /\ (stub_d /\ max_iterations = 3) =>
         (result.success /\ result.iterations_used = 3 /\ kickoffs = 3)
    /\ (stub_d /\ max_iterations = 1) => ~result.success

C9_Witness ==
  /\ entry = "process_contract"
  /\ pc = "done"
  /\ stub_d
  /\ max_iterations = 3
  /\ kickoffs = 3
  /\ result.success
  /\ result.final_score = 50
  /\ result.final_rtf = original_rtf \o <<"x">>

C11_ModifyWorksOnCurrentText ==
  (entry = "process_contract" /\ kickoffs > 1) =>
    modify_call.document = modify_call.current_rtf

\* C12: when the kickoff of round 1 raises, no further round is attempted and
\* process_contract returns a failure: success = false, no final text, no
\* final score, and the error in error_message.
C12_FirstRoundFailureFailsJob ==
  (entry = "process_contract" /\ failed # None /\ failed.round = 1) =>
    /\ pc = "done"
    /\ kickoffs = 1
    /\ result.success = FALSE
    /\ result.final_rtf = NoText
    /\ result.final_score = NoScore
    /\ result.iterations_used = 0
    /\ result.error_message = "Processing failed"

C12_Witness ==
  /\ entry = "process_contract"
  /\ pc = "done"
  /\ failed # None
  /\ failed.round = 1
  /\ max_iterations = 3
  /\ result.error_message = "Processing failed"

\* C13: when the kickoff of a round k > 1 raises, the loop ends without another
\* kickoff and the job is not failed by it: the result is a success carrying
\* current_rtf and final_score as they were when round k began.
C13_LaterRoundFailureKeepsResult ==
  (entry = "process_contract" /\ failed # None /\ failed.round > 1) =>
    /\ pc \in {"break", "done"}
    /\ kickoffs = failed.round
    /\ current_rtf = failed.current_rtf
    /\ final_score = failed.final_score
    /\ failed.final_score # NoScore
    /\ pc = "done" =>
         /\ result.success
         /\ result.final_rtf = failed.current_rtf
         /\ result.final_score = failed.final_score
         /\ result.iterations_used = failed.round
         /\ result.error_message = "None"

C13_Witness ==
  /\ entry = "process_contract"
  /\ pc = "done"
  /\ failed # None
  /\ failed.round = 2
  /\ max_iterations = 3
  /\ result.success
  /\ result.final_rtf = original_rtf \o <<"x">>
  /\ result.final_score = 50

\* C14: process_contract never lets an exception out: whatever the kickoffs
\* of the loop, of the chunks and of the evaluation do, the call is at one of
\* its own steps (in the loop within the iteration budget or about to return,
\* with a chunk left to submit, with a future left to collect) or has
\* returned a result, and a result with success = false has an error message
\* (a successful one has none).
C14_FailuresAreReturned ==
  entry = "process_contract" =>
    /\ pc # "raised"
    /\ pc \in {"start", "submit", "collect", "shutdown", "reassemble", "loop", "break", "done"}
    /\ pc = "loop" => iteration \in 1..(max_iterations + 1)
    /\ pc = "submit" => \E i \in Idx : fstate[i] = "NONE"
    /\ pc = "collect" => yielded # Idx
    /\ (pc = "done") = (result # None)
    /\ pc = "done" =>
         /\ result.kind = "result"
         /\ result.success = (result.error_message = "None")
         /\ ~result.success => result.error_message \in
               {"Processing failed", "Processing incomplete", "Chunked processing failed",
                "Chunked processing quality score below threshold"}
         /\ (raised # NoExc \/ (failed # None /\ failed.round = 1)) => ~result.success

\* a chunk's kickoff raised, another ran out of time: the job returned a failure
C14_Witness ==
  /\ entry = "process_contract"
  /\ pc = "done"
  /\ Len(chunks) = 2
  /\ fres[1].kind = "exc"
  /\ timed_out = {2}
  /\ result.success = FALSE
  /\ result.error_message = "Chunked processing failed"

\* the overall_score the critic of the chunked path reported (NoScore if it
\* reported none)
CriticReported ==
  IF evaluation_seen.kind = "ret" /\ evaluation_seen.tasks_output[1].json.kind = "dict"
    THEN evaluation_seen.tasks_output[1].json.overall_score
    ELSE NoScore

\* C15 (as claimed): the chunked path is one pass: every chunk's transform runs
\* at most once, the evaluation is run exactly once, iterations_used is 1 and
\* success holds exactly when the critic's overall_score >= minimum_score.
C15_ChunkedOneShot ==
  (entry = "process_contract" /\ pc = "done" /\ score_calls > 0 /\ CriticReported # NoScore) =>
    /\ score_calls = 1
    /\ kickoffs = 0
    /\ result.iterations_used = 1
    /\ result.final_score = CriticReported
    /\ result.success = (CriticReported >= minimum_score)

\* the critic's output of the latest round was not parseable evaluation data
CriticUnparseable ==
  /\ round_result.kind = "ret"
  /\ Len(round_result.tasks_output) = 2
  /\ round_result.tasks_output[2].json.kind \in {"nojson", "badjson"}

\* C16: a round whose critic output does not parse is evaluated with the
\* default {overall_score 0.0, satisfied false}: the loop does not stop as
\* satisfied on it, nothing is raised, and the loop goes on to the next round
\* or ends because its budget is used up.
C16_UnparseableEvaluationDefaults ==
  (entry = "process_contract" /\ CriticUnparseable) =>
    /\ final_score = 0
    /\ satisfied_at[1] = 0
    /\ failed = None
    /\ pc \in {"loop", "done"}
    /\ iteration = kickoffs + 1
    /\ pc = "done" =>
         /\ iteration > max_iterations
         /\ result.iterations_used = max_iterations
         /\ result.final_score = 0

\* round 1 gave a new text and an unparseable evaluation; round 2 is next
C16_Witness ==
  /\ entry = "process_contract"
  /\ CriticUnparseable
  /\ round_result.tasks_output[2].json.kind = "badjson"
  /\ kickoffs = 1
  /\ pc = "loop"
  /\ iteration = 2
  /\ max_iterations = 3
  /\ current_rtf = original_rtf \o <<"x">>

\* C17: whatever max_iterations the configuration asks for and whatever the
\* kickoffs do, the single-document loop makes at most min(max_iterations, 3)
\* rounds and ends with iterations_used <= 3; there is never a fourth round.
C17_AtMostThreeRounds ==
  entry = "process_contract" =>
    /\ kickoffs <= Min(configured, 3)
    /\ iterations_used = kickoffs
    /\ iterations_used <= 3
    /\ (pc = "loop" /\ kickoffs = Min(configured, 3)) => ~ENABLED LoopRound /\ ENABLED LoopReturn
    /\ (pc = "done" /\ ~should_chunk_document(chunking_manager, original_rtf)) =>
         /\ result.iterations_used <= 3
         /\ result.error_message # "Processing failed" => result.iterations_used = kickoffs

\* a configuration asking for more than three rounds, three rounds made, none
\* of them satisfied
C17_Witness ==
  /\ entry = "process_contract"
  /\ configured > 3
  /\ pc = "done"
  /\ kickoffs = 3
  /\ satisfied_at[1] = 0
  /\ failed = None
  /\ result.iterations_used = 3

\* the chunked path / the single-document loop has been entered
ChunkedPathTaken == doc_chunks # << >>
SingleLoopTaken == modify_call # None \/ pc \in {"loop", "break"} \/ kickoffs > 0

\* C18: a document is chunked exactly when its length is at least chunk_size
\* (chunk_size - 1 characters: not chunked, chunk_size characters: chunked),
\* and process_contract runs the chunked path exactly for those documents and
\* the single-document loop for the others, never both.
C18_ChunkingThreshold ==
  (entry = "process_contract" /\ pc # "start") =>
    /\ ChunkedPathTaken = (Len(original_rtf) >= chunk_size)
    /\ SingleLoopTaken => Len(original_rtf) < chunk_size
    /\ ~(ChunkedPathTaken /\ SingleLoopTaken)
    /\ pc = "done" =>
         /\ Len(original_rtf) >= chunk_size => (kickoffs = 0 /\ max_workers = OrchestratorMaxWorkers)
         /\ Len(original_rtf) < chunk_size =>
              (score_calls = 0 /\ chunks = << >> /\ final_rtf = NoText /\ threads = 0)

\* a document of exactly chunk_size characters went through the chunked path
C18_Witness ==
  /\ entry = "process_contract"
  /\ pc = "done"
  /\ Len(original_rtf) = chunk_size
  /\ ChunkedPathTaken
  /\ Len(doc_chunks) = 1
  /\ score_calls = 1
  /\ kickoffs = 0

\* the output of a completed chunk transform is degenerate: empty, or shorter
\* than half the original chunk
Degenerate(out, chunk) == out.content = << >> \/ Len(out.content) * 2 < Len(chunk)

\* chunks whose transform completed and whose result has been extracted
Extracted == {i \in yielded : fres[i].kind = "ret"}

\* C19 (as claimed): the result of a completed chunk transform is its output
\* with changed = true, unless the output is empty or shorter than 50% of the
\* original chunk, and then it is the original chunk with changed = false.
C19_CompletedChunkIsChanged ==
  entry \in {"_extract_chunk_result", "process_contract"} =>
    \A i \in Extracted :
      processed_chunks[i] =
        IF Degenerate(fres[i], chunks[i]) THEN Tuple(chunks[i], FALSE)
        ELSE Tuple(fres[i].content, TRUE)

\* C19 (amended): the result of a completed chunk transform is its output
\* (indicators removed) with changed = true exactly when the output carries
\* the CHUNK_MODIFIED indicator, unless the output is empty or shorter than
\* 50% of the original chunk, and then it is the original chunk with
\* changed = false.
C19_ChangedFollowsIndicator ==
  entry \in {"_extract_chunk_result", "process_contract"} =>
    \A i \in Extracted :
      /\ Degenerate(fres[i], chunks[i]) => processed_chunks[i] = Tuple(chunks[i], FALSE)
      /\ ~Degenerate(fres[i], chunks[i]) =>
           /\ processed_chunks[i].text = fres[i].content
           /\ processed_chunks[i].changed = (fres[i].marker = "CHUNK_MODIFIED")

\* output of exactly half the original length, marked unchanged: kept, changed = false
C19_Witness ==
  /\ entry = "_extract_chunk_result"
  /\ pc = "returned"
  /\ Len(chunks[1]) = 4
  /\ Len(fres[1].content) = 2
  /\ fres[1].marker = "CHUNK_UNCHANGED"
  /\ processed_chunks[1] = Tuple(fres[1].content, FALSE)

\* the transform returned every chunk as it was
NoOpTransform ==
  \A i \in Idx : outcome[i].kind = "ret" /\ outcome[i].text = chunks[i] /\ ~outcome[i].changed

\* C20 (as claimed): with chunk_overlap = 0 and a transform that returns every
\* chunk unchanged, reassembling what process_chunks_parallel returns for the
\* chunks of split_document(doc) gives doc again, for every document and every
\* completion order.
C20_NoOpRoundTrip ==
  (entry = "process_chunks_parallel" /\ pc = "reassembled" /\ chunk_overlap = 0 /\ NoOpTransform) =>
    final_rtf = original_rtf

\* ------------------------------------------------ split_document (C21, C22)
SplitReturned == entry = "split_document" /\ pc = "returned"

\* the last n characters of text, the first n characters of text
Suffix(text, n) == SubSeq(text, Len(text) - n + 1, Len(text))
Prefix(text, n) == SubSeq(text, 1, n)

RECURSIVE InOrderFrom(_, _, _)
\* the chunks can be found in doc one after the other, each starting at or
\* after the start of the one before it (from is the earliest start, 0-based)
InOrderFrom(doc, cs, from) ==
  cs = << >> \/
    \E k \in from..(Len(doc) - Len(Head(cs))) :
      /\ SubSeq(doc, k + 1, k + Len(Head(cs))) = Head(cs)
      /\ InOrderFrom(doc, Tail(cs), k)

C21_InOrder ==
  (SplitReturned /\ should_chunk_document(manager, args.document_content)) =>
    InOrderFrom(args.document_content, returned.value, 0)

C21_Bounded ==
  (SplitReturned /\ should_chunk_document(manager, args.document_content)) =>
    \A i \in DOMAIN returned.value :
      Len(returned.value[i]) <= manager.chunk_size + manager.chunk_overlap

C21_Overlapping ==
  (SplitReturned /\ should_chunk_document(manager, args.document_content)) =>
    \A i \in 1..(Len(returned.value) - 1) :
      /\ Len(returned.value[i]) >= manager.chunk_overlap
      /\ Len(returned.value[i + 1]) >= manager.chunk_overlap
      /\ Suffix(returned.value[i], manager.chunk_overlap)
           = Prefix(returned.value[i + 1], manager.chunk_overlap)


\* C21 (as claimed): for a document of at least chunk_size characters,
\* split_document returns the chunks in document order, each of at most
\* chunk_size + chunk_overlap characters, and every chunk but the last ends
\* with the chunk_overlap characters the next chunk begins with.
C21_ChunksOverlap == C21_InOrder /\ C21_Bounded /\ C21_Overlapping

\* C22: a document shorter than chunk_size is returned as one chunk that is
\* the document itself, character for character (spaces at its ends included).
C22_SmallDocumentOneChunk ==
  (SplitReturned /\ Len(args.document_content) < manager.chunk_size) =>
    returned.value = << args.document_content >>

\* a document of chunk_size - 1 characters that begins with a space came back whole
C22_Witness ==
  /\ SplitReturned
  /\ Len(args.document_content) = manager.chunk_size - 1
  /\ manager.chunk_size = 4
  /\ manager.chunk_overlap = 1
  /\ Head(args.document_content) = " "
  /\ returned.value = << args.document_content >>


\* ------------------------------------------- validate_chunk_integrity (C23)
\* C23 (as claimed): for every pair of chunk lists validate_chunk_integrity
\* returns a boolean: false when the lists differ in length, false when the
\* total length changed by more than 50% of the original total, true in every
\* other case (a change of exactly 50% included).
C23_IntegrityVerdict ==
  (entry = "validate_chunk_integrity" /\ pc = "returned") =>
    LET o == TotalLength(args.original_chunks)
        p == TotalLength(args.processed_chunks)
    IN /\ returned.kind = "value"
       /\ returned.value =
            ~ \/ Len(args.original_chunks) # Len(args.processed_chunks)
              \/ 2 * Abs(p - o) > o


\* ------------------------------------------- find_instruction_targets (C24)
\* C24: no two targets of the returned list are such that one is a substring
\* of, or equal to, the other, whichever passes found them and in whatever order.
C24_TargetsNeverNested ==
  (entry = "find_instruction_targets" /\ pc = "returned") =>
    \A i, j \in DOMAIN returned.value :
      i # j => ~Contains(returned.value[i], returned.value[j])

\* two targets were kept, and among those found a later one contained an
\* earlier one and was discarded
C24_Witness ==
  /\ entry = "find_instruction_targets" /\ pc = "returned"
  /\ Len(returned.value) >= 2
  /\ LET found == AllTargets(args.instruction, args.document)
     IN \E i, j \in DOMAIN found :
          /\ i < j
          /\ found[i] # found[j]
          /\ Contains(found[j], found[i])
          /\ \E k \in DOMAIN returned.value : returned.value[k] = found[i]
          /\ \A k \in DOMAIN returned.value : returned.value[k] # found[j]


\* ------------------------------------------- prioritize_chunks (C25 - C27)
RankReturned == entry = "prioritize_chunks" /\ pc = "returned"

\* how often the text c is an element of the list cs
CountIn(cs, c) == Cardinality({ i \in DOMAIN cs : cs[i] = c })

Orders(n) == { f \in [1..n -> 1..n] : \A i, j \in 1..n : f[i] = f[j] => i = j }

\* C26: with targets, the output lists the chunks by non-increasing score, and
\* chunks of equal score in the order of their indices in the input.
C26_RankOrder ==
  (RankReturned /\ args.targets # << >>) =>
    \E f \in Orders(Len(args.chunks)) :
      /\ returned.value = [p \in 1..Len(args.chunks) |-> args.chunks[f[p]]]
      /\ \A p, q \in 1..Len(args.chunks) :
           p < q =>
             LET sp == ChunkScore(args.chunks[f[p]], args.targets)
                 sq == ChunkScore(args.chunks[f[q]], args.targets)
             IN sp > sq \/ (sp = sq /\ f[p] < f[q])

\* three chunks, the last with the highest score and the first two different
\* chunks of one score: the output is the last, then the first two in their order
C26_Witness ==
  /\ RankReturned
  /\ args.targets # << >>
  /\ Len(args.chunks) = 3
  /\ args.chunks[1] # args.chunks[2]
  /\ ChunkScore(args.chunks[1], args.targets) = ChunkScore(args.chunks[2], args.targets)
  /\ ChunkScore(args.chunks[3], args.targets) > ChunkScore(args.chunks[1], args.targets)
  /\ returned.value = << args.chunks[3], args.chunks[1], args.chunks[2] >>

\* how often the chunk mentions the phrase
Mentions(chunk, phrase) ==
  Cardinality({ k \in 0..(Len(chunk) - Len(phrase)) : SubSeq(chunk, k + 1, k + Len(phrase)) = phrase })

\* C27 (as claimed): with the phrase as the target, a chunk that mentions the
\* phrase more often comes before every chunk that mentions it less often.
C27_MoreMentionsFirst ==
  (RankReturned /\ args.targets = << Phrase >>) =>
    \A p, q \in DOMAIN returned.value :
      Mentions(returned.value[p], Phrase) > Mentions(returned.value[q], Phrase) => p < q


\* ---------------------------------------------------- MemoryStorage (C28)
\* the jobs thread t has created so far
CreatedBy(t) ==
  { uuid4(t, i) : i \in 0..(worker_i[t] - 1) }
    \cup (IF worker_pc[t] \in {"update1", "update1_locked", "update2", "update2_locked", "append"}
            THEN { worker_job[t] } ELSE {})

\* C28: under every interleaving of the workers' create_job and
\* update_job_status calls no created job is lost, every job a worker has
\* finished with is completed with progress 100 (the last values its thread
\* wrote), at most one thread is inside the lock, and the main thread finds
\* all NumThreads * JobsPerThread jobs completed.
C28_JobStoreThreadSafe ==
  entry = "test_thread_safety" =>
    /\ \A t \in Workers : CreatedBy(t) \subseteq DOMAIN storage
    /\ DOMAIN storage = UNION { CreatedBy(t) : t \in Workers }
    /\ \A k \in DOMAIN results :
         /\ get_job(results[k]) # None
         /\ get_job(results[k]).status = "completed"
         /\ get_job(results[k]).progress = 100
    /\ \A t \in Workers :
         /\ worker_pc[t] \in {"update1_locked", "update2"} =>
              get_job(worker_job[t]).status \in {"queued", "processing"}
         /\ worker_pc[t] = "update2" =>
              get_job(worker_job[t]) = [job_id |-> worker_job[t], status |-> "processing", progress |-> 50]
         /\ (lock = t) = (worker_pc[t] \in {"create_locked", "update1_locked", "update2_locked"})
    /\ main_pc # "failed"
    /\ main_pc = "passed" =>
         /\ completed_count = NumThreads * JobsPerThread
         /\ Len(results) = NumThreads * JobsPerThread

\* the test passed after the two workers' jobs had been finished alternately
C28_Witness ==
  /\ entry = "test_thread_safety"
  /\ main_pc = "passed"
  /\ completed_count = NumThreads * JobsPerThread
  /\ results[1][1] # results[2][1]
  /\ results[2][1] # results[3][1]


\* ------------------------------------------------ the result (C29, C30)
\* C29 (as claimed): when the single-document loop stopped because an
\* evaluation said satisfied, the result reports success and carries the
\* final text, whatever the evaluation's overall_score and whichever the round.
C29_SatisfiedMeansSuccess ==
  (entry = "process_contract" /\ pc = "done" /\ satisfied_at[1] # 0) =>
    /\ result.success
    /\ result.final_rtf = current_rtf

\* C30: every result process_contract returns, on either path, has a final
\* text exactly when success is true and an error message exactly when
\* success is false.
C30_TextXorError ==
  (entry = "process_contract" /\ pc = "done") =>
    /\ result.kind = "result"
    /\ (result.final_rtf # NoText) = result.success
    /\ (result.error_message # "None") = ~result.success
    /\ result.success => result.final_rtf \in {current_rtf, final_rtf}

\* the chunked path reassembled a text, the score was below the threshold:
\* the result has the error message and no text
C30_Witness ==
  /\ entry = "process_contract"
  /\ pc = "done"
  /\ final_rtf # NoText
  /\ score_calls = 1
  /\ ~result.success
  /\ result.final_rtf = NoText
  /\ result.error_message = "Chunked processing quality score below threshold"

====
